---------------------------- MODULE Spec2Model ----------------------------
(***************************************************************************)
(* Model of the doorman voice assistant: the keyword dispatcher, its       *)
(* action handlers (src/action.py) and the YAML-backed entity store        *)
(* (src/entity.py).                                                        *)
(*                                                                         *)
(* Python str values are TLA+ strings.  A Python value whose type matters  *)
(* (a YAML scalar may load as str or as None) is tagged: Str(s) or None.   *)
(* A dict is a function from field names to values; a field a dict lacks   *)
(* is outside its DOMAIN.  Dicts are objects: the state holds a heap of    *)
(* dicts and every holder of a dict holds a reference into it.             *)
(***************************************************************************)
EXTENDS Integers, Sequences, FiniteSets, TLC

VARIABLES
    file,       \* the text of /home/pi/entities2.yml, as a document of scalars
    heap,       \* reference -> tenant dict (the dicts yaml.load created)
    tenants,    \* Entities.tenants of global_entities: tenant key -> reference
    units,      \* Entities.units: unit key -> unit dict (never mutated)
    views,      \* handler name -> reference held by its entity.Tenant view
    handlers,   \* Actor.handlers: the keyword registry, in registration order
    volume,     \* the mixer's Master volume, in percent
    call,       \* the last operation applied and its inputs
    trace,      \* what that operation did, in order: say, assign, save, ...
    exc,        \* the exception that left it, "" when it returned normally
    ret         \* what it returned (pure functions)

vars == <<file, heap, tenants, units, views, handlers, volume, call, trace,
          exc, ret>>

-----------------------------------------------------------------------------
(* Python str operations *)

Char(s, i) == SubSeq(s, i, i)

UpperLetters == <<"A","B","C","D","E","F","G","H","I","J","K","L","M",
                  "N","O","P","Q","R","S","T","U","V","W","X","Y","Z">>
LowerLetters == <<"a","b","c","d","e","f","g","h","i","j","k","l","m",
                  "n","o","p","q","r","s","t","u","v","w","x","y","z">>
Digits == <<"0","1","2","3","4","5","6","7","8","9">>
Whitespace == {" ", "\n", "\t", "\r", "\f"}

Range(f) == {f[i] : i \in DOMAIN f}
IndexOf(seq, c) == CHOOSE i \in DOMAIN seq : seq[i] = c

DigitSet == Range(Digits)
UpperSet == Range(UpperLetters)
LetterSet == Range(UpperLetters) \cup Range(LowerLetters)
LowerOf == [c \in UpperSet |-> LowerLetters[IndexOf(UpperLetters, c)]]
DigitValue == [c \in DigitSet |-> IndexOf(Digits, c) - 1]

IsDigit(c) == c \in DigitSet
IsLetter(c) == c \in LetterSet

LowerChar(c) == IF c \in UpperSet THEN LowerOf[c] ELSE c

RECURSIVE Lower(_)
\* str.lower()
Lower(s) ==
    IF s = "" THEN ""
    ELSE LowerChar(Char(s, 1)) \o Lower(SubSeq(s, 2, Len(s)))

\* `sub in s`
Contains(sub, s) ==
    \E i \in 1..(Len(s) - Len(sub) + 1) : SubSeq(s, i, i + Len(sub) - 1) = sub

RECURSIVE Rstrip(_)
\* str.rstrip(): drops every trailing whitespace character
Rstrip(s) ==
    IF s # "" /\ Char(s, Len(s)) \in Whitespace
    THEN Rstrip(SubSeq(s, 1, Len(s) - 1))
    ELSE s

RECURSIVE Replace(_, _, _)
\* str.replace(old, new), for a non-empty old: every occurrence, left to right
Replace(s, old, new) ==
    LET hits == {i \in 1..(Len(s) - Len(old) + 1) :
                    SubSeq(s, i, i + Len(old) - 1) = old}
    IN  IF hits = {} THEN s
        ELSE LET i == CHOOSE x \in hits : \A y \in hits : x <= y
             IN  SubSeq(s, 1, i - 1) \o new
                 \o Replace(SubSeq(s, i + Len(old), Len(s)), old, new)

RECURSIVE ParseInt(_)
\* int(s) for a non-empty run of decimal digits
ParseInt(s) ==
    IF s = "" THEN 0
    ELSE 10 * ParseInt(SubSeq(s, 1, Len(s) - 1)) + DigitValue[Char(s, Len(s))]

IsDigitRun(s) == s # "" /\ \A i \in 1..Len(s) : IsDigit(Char(s, i))

RECURSIVE FormatNat(_)
FormatNat(n) ==
    IF n < 10 THEN Digits[n + 1]
    ELSE FormatNat(n \div 10) \o Digits[(n % 10) + 1]

\* '%d' % n and '%s' % n for an int n
FormatInt(n) == IF n < 0 THEN "-" \o FormatNat(-n) ELSE FormatNat(n)

-----------------------------------------------------------------------------
(* SpeakTime.to_str *)

HRS_TEXT == <<"midnight", "one", "two", "three", "four", "five", "six",
              "seven", "eight", "nine", "ten", "eleven", "twelve">>
MINS_TEXT == <<"five", "ten", "quarter", "twenty", "twenty-five", "half">>

\* list[i] in Python: 0-based, a negative index counts from the end, and an
\* index outside -len..len-1 raises IndexError
PyIndex(list, i) ==
    IF i >= 0 /\ i < Len(list) THEN [exc |-> "", val |-> list[i + 1]]
    ELSE IF i < 0 /\ -i <= Len(list)
         THEN [exc |-> "", val |-> list[Len(list) + i + 1]]
         ELSE [exc |-> "IndexError", val |-> ""]

\* 'It is %s o'clock.' and 'It is %s to|past %s.' over looked-up words
Phrase(parts) ==
    IF \E i \in DOMAIN parts : parts[i].exc # ""
    THEN [exc |-> "IndexError", val |-> ""]
    ELSE IF Len(parts) = 1
         THEN [exc |-> "", val |-> "It is " \o parts[1].val \o " o'clock."]
         ELSE [exc |-> "",
               val |-> "It is " \o parts[1].val \o parts[2].val
                       \o parts[3].val \o "."]

\* to_str with the hour advanced without wrapping at 24
to_str_NoWrap(dt) ==
    LET minute_rounded0 == (dt.minute + 2) \div 5
        minute_is_inverted == minute_rounded0 > 6
        minute_rounded == IF minute_is_inverted THEN 12 - minute_rounded0
                          ELSE minute_rounded0
        hour1 == IF minute_is_inverted THEN dt.hour + 1 ELSE dt.hour
        hour == IF hour1 > 12 THEN hour1 - 12 ELSE hour1
    IN  IF minute_rounded = 0
        THEN IF hour = 0 THEN [exc |-> "", val |-> "It is midnight."]
             ELSE Phrase(<<PyIndex(HRS_TEXT, hour)>>)
        ELSE IF minute_is_inverted
             THEN Phrase(<<PyIndex(MINS_TEXT, minute_rounded - 1),
                           [exc |-> "", val |-> " to "],
                           PyIndex(HRS_TEXT, hour)>>)
             ELSE Phrase(<<PyIndex(MINS_TEXT, minute_rounded - 1),
                           [exc |-> "", val |-> " past "],
                           PyIndex(HRS_TEXT, hour)>>)

\* to_str with the minute truncated, not rounded, to five minutes
to_str_Truncating(dt) ==
    LET minute_rounded0 == dt.minute \div 5
        minute_is_inverted == minute_rounded0 > 6
        minute_rounded == IF minute_is_inverted THEN 12 - minute_rounded0
                          ELSE minute_rounded0
        hour1 == IF minute_is_inverted THEN (dt.hour + 1) % 24 ELSE dt.hour
        hour == IF hour1 > 12 THEN hour1 - 12 ELSE hour1
    IN  IF minute_rounded = 0
        THEN IF hour = 0 THEN [exc |-> "", val |-> "It is midnight."]
             ELSE Phrase(<<PyIndex(HRS_TEXT, hour)>>)
        ELSE IF minute_is_inverted
             THEN Phrase(<<PyIndex(MINS_TEXT, minute_rounded - 1),
                           [exc |-> "", val |-> " to "],
                           PyIndex(HRS_TEXT, hour)>>)
             ELSE Phrase(<<PyIndex(MINS_TEXT, minute_rounded - 1),
                           [exc |-> "", val |-> " past "],
                           PyIndex(HRS_TEXT, hour)>>)

to_str(dt) ==
    LET minute_rounded0 == (dt.minute + 2) \div 5
        minute_is_inverted == minute_rounded0 > 6
        minute_rounded == IF minute_is_inverted THEN 12 - minute_rounded0
                          ELSE minute_rounded0
        hour1 == IF minute_is_inverted THEN (dt.hour + 1) % 24 ELSE dt.hour
        hour == IF hour1 > 12 THEN hour1 - 12 ELSE hour1
    IN  IF minute_rounded = 0
        THEN IF hour = 0 THEN [exc |-> "", val |-> "It is midnight."]
             ELSE Phrase(<<PyIndex(HRS_TEXT, hour)>>)
        ELSE IF minute_is_inverted
             THEN Phrase(<<PyIndex(MINS_TEXT, minute_rounded - 1),
                           [exc |-> "", val |-> " to "],
                           PyIndex(HRS_TEXT, hour)>>)
             ELSE Phrase(<<PyIndex(MINS_TEXT, minute_rounded - 1),
                           [exc |-> "", val |-> " past "],
                           PyIndex(HRS_TEXT, hour)>>)

-----------------------------------------------------------------------------
(* PageUnit.say_unit *)

RECURSIVE DigitPrefix(_)
\* the longest run of digits s starts with
DigitPrefix(s) ==
    IF s # "" /\ IsDigit(Char(s, 1))
    THEN Char(s, 1) \o DigitPrefix(SubSeq(s, 2, Len(s)))
    ELSE ""

RECURSIVE LetterPrefix(_)
\* the longest run of letters a-z, A-Z s starts with
LetterPrefix(s) ==
    IF s # "" /\ IsLetter(Char(s, 1))
    THEN Char(s, 1) \o LetterPrefix(SubSeq(s, 2, Len(s)))
    ELSE ""

RECURSIVE FirstDigitRun(_)
\* re.findall(r'\d+', s)[0]: the leftmost maximal digit run, "" when s has
\* no digit (where [0] raises IndexError)
FirstDigitRun(s) ==
    IF s = "" THEN ""
    ELSE IF IsDigit(Char(s, 1)) THEN DigitPrefix(s)
         ELSE FirstDigitRun(SubSeq(s, 2, Len(s)))

\* re.match(r"([0-9]+)([a-z]+)", s, re.I): the groups, or no match.  The
\* digits are matched greedily and a letter must follow them at once.
MatchNumSuffix(s) ==
    LET n == DigitPrefix(s)
        suf == LetterPrefix(SubSeq(s, Len(n) + 1, Len(s)))
    IN  [matched |-> n # "" /\ suf # "", n |-> n, suf |-> suf]

(* A unit number can be longer than the integers of the model: an int that
   say_unit computes with is kept as its decimal digits, without leading
   zeros. *)

RECURSIVE StripZeros(_)
\* the digits of int(s) for a digit run s
StripZeros(s) ==
    IF Len(s) > 1 /\ Char(s, 1) = "0" THEN StripZeros(SubSeq(s, 2, Len(s)))
    ELSE s

RECURSIVE DigitsLess(_, _)
\* a < b for digit strings of the same length
DigitsLess(a, b) ==
    IF a = "" THEN FALSE
    ELSE IF Char(a, 1) # Char(b, 1)
         THEN DigitValue[Char(a, 1)] < DigitValue[Char(b, 1)]
         ELSE DigitsLess(SubSeq(a, 2, Len(a)), SubSeq(b, 2, Len(b)))

\* a < b for ints kept as digits
Less(a, b) == Len(a) < Len(b) \/ (Len(a) = Len(b) /\ DigitsLess(a, b))

RECURSIVE Succ(_)
\* a + 1 for an int kept as digits
Succ(a) ==
    IF a = "" THEN "1"
    ELSE IF Char(a, Len(a)) = "9" THEN Succ(SubSeq(a, 1, Len(a) - 1)) \o "0"
         ELSE SubSeq(a, 1, Len(a) - 1)
              \o Digits[DigitValue[Char(a, Len(a))] + 2]

\* val // 100 and val % 100 for an int kept as digits
Quot100(val) == IF Len(val) <= 2 THEN "0" ELSE SubSeq(val, 1, Len(val) - 2)
Rem100(val) ==
    IF Len(val) <= 2 THEN ParseInt(val)
    ELSE ParseInt(SubSeq(val, Len(val) - 1, Len(val)))

\* 2^47 .. 2^53
PowersOfTwo ==
    [e \in 47..53 |->
        CASE e = 47 -> "140737488355328"
          [] e = 48 -> "281474976710656"
          [] e = 49 -> "562949953421312"
          [] e = 50 -> "1125899906842624"
          [] e = 51 -> "2251799813685248"
          [] e = 52 -> "4503599627370496"
          [] e = 53 -> "9007199254740992"]

RECURSIVE TwoTo(_)
TwoTo(n) == IF n = 0 THEN 1 ELSE 2 * TwoTo(n - 1)

\* int(val / 100).  val / 100 is the double nearest to the quotient (ties to
\* the even double), and int() drops its fraction.  With k = val // 100 and
\* f = val % 100: below 2^47 the doubles around k + f/100 are less than 1/50
\* apart and the double lies in [k, k+1).  For 2^e <= k < 2^(e+1), e in
\* 47..52, they are 2^(e-52) apart, and the nearest one is k+1 when
\* (100 - f) * 2^(53-e) < 100, or equals 100 and k+1 is the even one.
\* Quotients of 2^53 and more are outside the model.
TrueDiv100(val) ==
    LET k == Quot100(val)
        f == Rem100(val)
        e == CHOOSE x \in 47..52 :
                ~Less(k, PowersOfTwo[x]) /\ Less(k, PowersOfTwo[x + 1])
        gap == (100 - f) * TwoTo(53 - e)
        kIsOdd == DigitValue[Char(k, Len(k))] % 2 = 1
    IN  IF Less(k, PowersOfTwo[47]) \/ f = 0 THEN k
        ELSE IF gap < 100 \/ (gap = 100 /\ (e < 52 \/ kIsOdd)) THEN Succ(k)
             ELSE k

say_unit(unit) ==
    LET run == FirstDigitRun(unit)
    IN  IF run = "" THEN unit          \* IndexError, caught: return unit
        ELSE LET val == StripZeros(run)
                 match == MatchNumSuffix(unit)
                 suf == IF match.matched THEN match.suf ELSE ""
                 hun == TrueDiv100(val)
                 \* val - hun * 100, where hun is val // 100 or one more
                 rem == IF hun = Quot100(val) THEN Rem100(val)
                        ELSE Rem100(val) - 100
             IN  hun \o " " \o FormatInt(rem) \o " " \o suf

-----------------------------------------------------------------------------
(* Python values and their YAML text *)

Str(s) == [str |-> s]
PyInt(n) == [int |-> n]
None == [none |-> TRUE]
IsStr(v) == DOMAIN v = {"str"}
IsInt(v) == DOMAIN v = {"int"}

\* bool(v) for a str or None
Truthy(v) == IsStr(v) /\ v.str # ""

\* Plain scalars the YAML 1.1 resolver of PyYAML reads as something other
\* than a str: null, bool and decimal int
YamlNullWords == {"", "~", "null", "Null", "NULL"}
YamlBoolWords == {"yes", "Yes", "YES", "no", "No", "NO", "true", "True",
                  "TRUE", "false", "False", "FALSE", "on", "On", "ON",
                  "off", "Off", "OFF"}
ResolvesToNonStr(s) ==
    \/ s \in YamlNullWords
    \/ s \in YamlBoolWords
    \/ IsDigitRun(s)
    \/ Len(s) > 1 /\ Char(s, 1) \in {"-", "+"}
                  /\ IsDigitRun(SubSeq(s, 2, Len(s)))

\* What keeps a str from being written as a plain scalar.  The character
\* set is wider than PyYAML's; a quoted scalar loads to the same str.
QuotedChars == Whitespace \cup {"'", "\"", ":", "#", "$", ",", "!"}
NeedsQuotes(s) ==
    \/ ResolvesToNonStr(s)
    \/ \E i \in 1..Len(s) : Char(s, i) \in QuotedChars

\* yaml.dump of one scalar
YamlDumpScalar(v) ==
    IF IsStr(v)
    THEN IF NeedsQuotes(v.str)
         THEN "'" \o Replace(v.str, "'", "''") \o "'"
         ELSE v.str
    ELSE IF IsInt(v) THEN FormatInt(v.int)
         ELSE "null"

\* yaml.load of one scalar the store wrote
YamlLoadScalar(text) ==
    IF Len(text) >= 2 /\ Char(text, 1) = "'"
    THEN Str(Replace(SubSeq(text, 2, Len(text) - 1), "''", "'"))
    ELSE IF text \in YamlNullWords THEN None
         ELSE IF IsDigitRun(text) THEN PyInt(ParseInt(text))
              ELSE Str(text)

\* a dict's fields: 'synonyms' is a list of scalars, 'paging_exception' a
\* dict with a scalar 'message', the others are scalars
YamlDumpDict(d) ==
    [k \in DOMAIN d |->
        IF k = "synonyms"
        THEN [i \in DOMAIN d[k] |-> YamlDumpScalar(d[k][i])]
        ELSE IF k = "paging_exception"
             THEN [message |-> YamlDumpScalar(d[k].message)]
             ELSE YamlDumpScalar(d[k])]

YamlLoadDict(t) ==
    [k \in DOMAIN t |->
        IF k = "synonyms"
        THEN [i \in DOMAIN t[k] |-> YamlLoadScalar(t[k][i])]
        ELSE IF k = "paging_exception"
             THEN [message |-> YamlLoadScalar(t[k].message)]
             ELSE YamlLoadScalar(t[k])]

-----------------------------------------------------------------------------
(* entity.py: the store *)

\* The tenant keys of the document, in the document's order
TenantKeys == <<"Bryan", "Dana">>
UnitKeys == <<"u453", "u12">>

\* References to tenant dicts.  The Tenant views made by make_actor keep the
\* dicts of the first load alive; every later load makes one new dict per
\* tenant and drops the dicts of the load before it.
Refs == 1..(2 * Len(TenantKeys))
NoDict == <<>>

\* One step of the machine threads this record through the calls it makes.
Machine(f, h, t, u, vol) ==
    [file |-> f, heap |-> h, tenants |-> t, units |-> u, volume |-> vol,
     trace |-> <<>>, exc |-> ""]

Event(op, a, v) == [op |-> op, a |-> a, v |-> v]
Log(st, op, a, v) == [st EXCEPT !.trace = Append(@, Event(op, a, v))]
Raise(st, e) == [Log(st, "raise", e, None) EXCEPT !.exc = e]

\* The references the handlers' views hold
Held ==
    {views.GainEntry, views.RequestPassword}
        \cup {views.PageTenant[k] : k \in DOMAIN views.PageTenant}

\* The references no view holds, lowest first: where a load puts its dicts
FreshRefs ==
    LET free == Refs \ Held
        nth[i \in 1..Cardinality(free)] ==
            IF i = 1 THEN CHOOSE r \in free : \A q \in free : r <= q
            ELSE CHOOSE r \in free :
                    /\ r > nth[i - 1]
                    /\ \A q \in free : q > nth[i - 1] => r <= q
    IN  nth

\* Entities.import_data: yaml.load builds new dicts; self.units and
\* self.tenants are rebound to them.  Dicts only the old self.tenants held
\* are garbage.
import_data(st) ==
    LET fresh == FreshRefs
        newTenants == [i \in DOMAIN TenantKeys |-> fresh[i]]
        refOf == [k \in Range(TenantKeys) |->
                     newTenants[IndexOf(TenantKeys, k)]]
        newHeap == [r \in Refs |->
                     IF r \in Held THEN st.heap[r]
                     ELSE IF \E k \in Range(TenantKeys) : refOf[k] = r
                          THEN YamlLoadDict(st.file.tenants[
                                   CHOOSE k \in Range(TenantKeys) :
                                       refOf[k] = r])
                          ELSE NoDict]
    IN  Log([st EXCEPT !.heap = newHeap,
                       !.tenants = refOf,
                       !.units = [k \in DOMAIN st.file.units |->
                                     YamlLoadDict(st.file.units[k])]],
            "load", "", None)

\* Entities.serialize_data: dumps self.units and self.tenants
serialize_data(st) ==
    Log([st EXCEPT !.file =
            [units |-> [k \in DOMAIN st.units |-> YamlDumpDict(st.units[k])],
             tenants |-> [k \in DOMAIN st.tenants |->
                             YamlDumpDict(st.heap[st.tenants[k]])]]],
        "save", "", None)

\* Entities.synch_data
synch_data(st) == import_data(serialize_data(st))

-----------------------------------------------------------------------------
(* entity.py: views *)

default_password == Str("asdfqlwevnwaevnwlvjwekfnsedhsadhfwe")

\* the getter without the test for an empty value
password_get_Unchecked(data) ==
    IF "password" \in DOMAIN data THEN data["password"]
    ELSE default_password

\* Tenant.password (getter) over the dict the view holds
password_get(data) ==
    IF "password" \in DOMAIN data
    THEN IF Truthy(data["password"]) THEN data["password"]
         ELSE default_password
    ELSE default_password

\* Tenant.password (setter) through the view holding reference ref
password_set(st, ref, value) ==
    synch_data(
        Log([st EXCEPT !.heap[ref] = ("password" :> value) @@ @],
            "assign", "", value))

\* Tenant.phone_no
phone_no(data) ==
    IF "phone_no" \in DOMAIN data THEN data["phone_no"] ELSE Str("")

\* Tenant.name, Unit.address
name(data) == data["synonyms"][1]
address(data) == data["synonyms"][1]

\* Entity.synonyms
synonyms(data) ==
    [i \in DOMAIN data["synonyms"] |-> Lower(data["synonyms"][i].str)]

-----------------------------------------------------------------------------
(* action.py: Messenger and Password *)

\* The lines of /home/pi/CROSSWD.TXT as f.readlines() returns them
words == <<"Kiwi\n", "no \n", "\n">>

\* Messenger.send_text: the provider accepts the message or the client raises
send_text(st, to, msg, accepted) ==
    IF accepted THEN Log(st, "sms", to.str, msg)
    ELSE Raise(st, "TwilioRestException")

\* Password.new_word for the view holding ref; line is random.choice(words).
\* The message body and the value returned are each read through the getter.
new_word(st, ref, line, accepted) ==
    LET s1 == password_set(st, ref, Str(Rstrip(line)))
        s2 == send_text(s1, phone_no(s1.heap[ref]), password_get(s1.heap[ref]),
                        accepted)
    IN  IF s2.exc # "" THEN s2
        ELSE Log(s2, "return", "new_word", password_get(s2.heap[ref]))

\* random.choice(list) for draw r
choice(list, r) == list[((r - 1) % Len(list)) + 1]

-----------------------------------------------------------------------------
(* action.py: handlers *)

RequestPassword_synonyms == <<"password", "forgot", "help">>
RequestPassword_responses ==
    <<"ok, $tenant, i've sent you a new password",
      "ok, $tenant, check your messages",
      "you got it, $tenant, i just texted you a new one.">>

GainEntry_pass_responses ==
    <<"hello, $tenant, have a wonderful day",
      "good day, $tenant, nice to see you",
      "howdy, $tenant!  another lovely day in the city">>
GainEntry_fail_responses ==
    <<"sorry, i could not let you in",
      "authorization has been denied.  please try again",
      "please check your password, it didn't match",
      "try spelling it out slowly next time">>
GainEntry_synonyms ==
    <<"let me in", "open up", "open the door", "knock knock">>

PageUnit_responses ==
    <<"please wait. paging unit $unit",
      "ok. paging unit $unit",
      "hang on while i page unit $unit",
      "you got it. paging unit $unit">>
PageTenant_responses ==
    <<"ok, paging $tenant",
      "ok, please stand by while i page $tenant",
      "sure, please wait while i page $tenant",
      "paging $tenant, please stand by",
      "ok, hang on while i page $tenant">>

\* RequestPassword.run
RequestPassword_run(st, r, line, accepted) ==
    LET ref == views.RequestPassword
        s1 == new_word(st, ref, line, accepted)
        response == Replace(choice(RequestPassword_responses, r), "$tenant",
                            name(s1.heap[ref]).str)
    IN  IF s1.exc # "" THEN s1 ELSE Log(s1, "say", response, None)

\* the test of GainEntry.run
password_matches(data, voice_command) ==
    Contains(password_get(data).str, Lower(voice_command))

\* GainEntry.run with the rotation moved before the spoken response
GainEntry_run_RotateFirst(st, voice_command, r, line, accepted) ==
    LET ref == views.GainEntry
        data == st.heap[ref]
        passed == password_matches(data, voice_command)
        response0 ==
            IF passed
            THEN "that is the correct password: " \o password_get(data).str
                 \o ". " \o choice(GainEntry_pass_responses, r)
            ELSE "i didn't recognize the password. "
                 \o choice(GainEntry_fail_responses, r)
        response == Replace(response0, "$tenant", name(data).str)
        s1 == IF passed THEN new_word(st, ref, line, accepted) ELSE st
    IN  IF s1.exc # "" THEN s1 ELSE Log(s1, "say", response, None)

\* GainEntry.run
GainEntry_run(st, voice_command, r, line, accepted) ==
    LET ref == views.GainEntry
        data == st.heap[ref]
        passed == password_matches(data, voice_command)
        response0 ==
            IF passed
            THEN "that is the correct password: " \o password_get(data).str
                 \o ". " \o choice(GainEntry_pass_responses, r)
            ELSE "i didn't recognize the password. "
                 \o choice(GainEntry_fail_responses, r)
        response == Replace(response0, "$tenant", name(data).str)
        s1 == Log(st, "say", response, None)
    IN  IF passed THEN new_word(s1, ref, line, accepted) ELSE s1

\* PagingException.message: a scalar message becomes a one-element list
message(pe) == <<pe.message.str>>

\* PageUnit.run for the unit with key k; PagingException.run does nothing.
\* The handler's Unit view holds the dict of the first load; no unit dict is
\* ever written, so the dict of the latest load has the same fields.
PageUnit_run(st, k, r) ==
    LET unit == st.units[k]
        responses == IF "paging_exception" \in DOMAIN unit
                     THEN message(unit["paging_exception"])
                     ELSE PageUnit_responses
    IN  Log(st, "say",
            Replace(choice(responses, r), "$unit",
                    say_unit(address(unit).str)),
            None)

\* PageTenant.run for the tenant with key k
PageTenant_run(st, k, r) ==
    LET tenant == st.heap[views.PageTenant[k]]
        responses == IF "paging_exception" \in DOMAIN tenant
                     THEN message(tenant["paging_exception"])
                     ELSE PageTenant_responses
    IN  Log(st, "say",
            Replace(choice(responses, r), "$tenant", name(tenant).str),
            None)

\* SpeakAction.run
SpeakAction_run(st, text) == Log(st, "say", text, None)

\* SpeakTime.run at local time dt
SpeakTime_run(st, dt) ==
    LET time_str == to_str(dt)
    IN  IF time_str.exc # "" THEN Raise(st, time_str.exc)
        ELSE Log(st, "say", time_str.val, None)

-----------------------------------------------------------------------------
(* action.py: VolumeControl *)

RECURSIVE Lstrip(_)
Lstrip(s) ==
    IF s # "" /\ Char(s, 1) \in Whitespace THEN Lstrip(SubSeq(s, 2, Len(s)))
    ELSE s

\* bytes.strip()
Strip(s) == Lstrip(Rstrip(s))

\* int(res): a decimal digit run, optionally signed; anything else raises
\* ValueError
int(res) ==
    IF IsDigitRun(res) THEN [exc |-> "", val |-> ParseInt(res)]
    ELSE IF Len(res) > 1 /\ Char(res, 1) \in {"-", "+"}
            /\ IsDigitRun(SubSeq(res, 2, Len(res)))
         THEN [exc |-> "",
               val |-> IF Char(res, 1) = "-"
                       THEN -ParseInt(SubSeq(res, 2, Len(res)))
                       ELSE ParseInt(SubSeq(res, 2, Len(res)))]
         ELSE [exc |-> "ValueError", val |-> 0]

Max(a, b) == IF a >= b THEN a ELSE b
Min(a, b) == IF a <= b THEN a ELSE b

\* the clamp without its upper limit
clamp_NoUpper(vol) == Max(0, vol)

\* max(0, min(100, vol))
clamp(vol) == Max(0, Min(100, vol))

\* What GET_VOLUME can print: the level amixer reports, nothing (no
\* "Front Left:" line), or a line the sed pattern left as it was
QueryOutputs(vol) ==
    {FormatInt(vol) \o "\n", "", "  Front Left: Playback [on]\n"}

\* VolumeControl.run.  query.failed: check_output raised CalledProcessError
\* (it is called before the try); query.out: what it printed.  set_ok: the
\* SET_VOLUME command changed the level; subprocess.call returns its exit
\* status, which run ignores.
VolumeControl_run(st, change, query, set_ok) ==
    IF query.failed THEN Raise(st, "CalledProcessError")
    ELSE LET res == int(Strip(query.out))
             vol == clamp(res.val + change)
             s1 == Log(st, "call",
                       "amixer -q set Master " \o FormatInt(vol) \o "%",
                       IF set_ok THEN Str("ok") ELSE Str("failed"))
             s2 == IF set_ok THEN [s1 EXCEPT !.volume = vol] ELSE s1
         IN  IF res.exc # ""
             THEN Log(Log(st, "say", "Sorry, I couldn't do that", None),
                      "log", "Error using amixer to adjust volume.", None)
             ELSE Log(s2, "say", "Volume at " \o FormatInt(vol) \o " %.",
                      None)

-----------------------------------------------------------------------------
(* actionbase: the keyword registry *)

\* Actor.add_keyword
add_keyword(registry, phrases, action) ==
    Append(registry,
           [keyword |-> [i \in DOMAIN phrases |-> Lower(phrases[i])],
            action |-> action])

Action(cls, key) == [cls |-> cls, key |-> key]
HandlerId(a) == a.cls \o ":" \o a.key

\* an entry can handle a command when one of its phrases is in the
\* lower-cased command
can_handle(entry, lowered) ==
    \E i \in DOMAIN entry.keyword : Contains(entry.keyword[i], lowered)

RECURSIVE scan(_, _, _)
\* the loop of Actor.handle from entry i on: the index of the first entry
\* that can handle the command, 0 when none can
scan(registry, lowered, i) ==
    IF i > Len(registry) THEN 0
    ELSE IF can_handle(registry[i], lowered) THEN i
         ELSE scan(registry, lowered, i + 1)

first_match(registry, voice_command) ==
    scan(registry, Lower(voice_command), 1)

RECURSIVE add_all(_, _, _, _, _)
\* the loops of make_actor: one entry per dict, in the dict's order
add_all(registry, keys, dicts, cls, i) ==
    IF i > Len(keys) THEN registry
    ELSE add_all(add_keyword(registry, synonyms(dicts[keys[i]]),
                             Action(cls, keys[i])),
                 keys, dicts, cls, i + 1)

\* make_actor with GainEntry registered before the units and tenants
make_actor_GainEntryFirst(unitDicts, tenantDicts) ==
    LET r0 == add_keyword(<<>>, GainEntry_synonyms, Action("GainEntry", ""))
        r1 == add_all(r0, UnitKeys, unitDicts, "PageUnit", 1)
        r2 == add_all(r1, TenantKeys, tenantDicts, "PageTenant", 1)
    IN  add_keyword(r2, RequestPassword_synonyms,
                    Action("RequestPassword", ""))

\* make_actor over the loaded units and tenants
make_actor(unitDicts, tenantDicts) ==
    LET r1 == add_all(<<>>, UnitKeys, unitDicts, "PageUnit", 1)
        r2 == add_all(r1, TenantKeys, tenantDicts, "PageTenant", 1)
        r3 == add_keyword(r2, GainEntry_synonyms, Action("GainEntry", ""))
    IN  add_keyword(r3, RequestPassword_synonyms,
                    Action("RequestPassword", ""))

\* add_commands_just_for_cloud_speech_api: the text of each simple command
SimpleCommands ==
    <<<<"alexa", "We've been friends since we were both starter projects">>,
      <<"beatbox", "pv zk pv pv zk pv zk kz zk pv pv pv zk pv zk zk pzk pzk pvzkpkzvpvzk kkkkkk bsch">>,
      <<"clap", "clap clap">>,
      <<"google home", "She taught me everything I know.">>,
      <<"hello", "hello to you too">>,
      <<"tell me a joke",
        "What do you call an alligator in a vest? An investigator.">>,
      <<"three laws of robotics",
        "The laws of robotics are\n0: A robot may not injure a human being or, through inaction, allow a human\nbeing to come to harm.\n1: A robot must obey orders given it by human beings except where such orders\nwould conflict with the First Law.\n2: A robot must protect its own existence as long as such protection does not\nconflict with the First or Second Law.">>,
      <<"where are you from",
        "A galaxy far, far, just kidding. I'm from Seattle.">>,
      <<"your name", "A machine has no name">>>>

RECURSIVE add_simple(_, _)
add_simple(registry, i) ==
    IF i > Len(SimpleCommands) THEN registry
    ELSE add_simple(add_keyword(registry, <<SimpleCommands[i][1]>>,
                                Action("SpeakAction", SimpleCommands[i][1])),
                    i + 1)

SimpleText(key) ==
    SimpleCommands[CHOOSE i \in DOMAIN SimpleCommands :
                       SimpleCommands[i][1] = key][2]

\* add_commands_just_for_cloud_speech_api
add_commands(registry) ==
    add_keyword(add_simple(registry, 1), <<"time">>, Action("SpeakTime", ""))

\* What the handler of an entry draws at random or reads from outside: the
\* response draw r, the word-list line, whether the SMS provider accepts the
\* message, and the local time
NoTime == [hour |-> 0, minute |-> 0]
Clock == [hour : 0..23, minute : 0..59]
\* the times the dispatched SpeakTime is run at
ClockSamples ==
    {[hour |-> 4, minute |-> 0], [hour |-> 0, minute |-> 0],
     [hour |-> 16, minute |-> 47], [hour |-> 23, minute |-> 58]}
Inputs(rs, lines, accepts, clock) ==
    [r : rs, line : lines, accepted : accepts, dt : clock]

\* The inputs the run of action a reads in state st: every draw of the list
\* it chooses from; a line and the provider's answer where it rotates
InputsOf(st, a, voice_command) ==
    CASE a.cls = "GainEntry" ->
            IF password_matches(st.heap[views.GainEntry], voice_command)
            THEN Inputs(DOMAIN GainEntry_pass_responses, Range(words),
                        BOOLEAN, {NoTime})
            ELSE Inputs(DOMAIN GainEntry_fail_responses, {""}, {TRUE},
                        {NoTime})
      [] a.cls = "RequestPassword" ->
            Inputs(DOMAIN RequestPassword_responses, Range(words), BOOLEAN,
                   {NoTime})
      [] a.cls = "PageUnit" ->
            Inputs(DOMAIN PageUnit_responses, {""}, {TRUE}, {NoTime})
      [] a.cls = "PageTenant" ->
            Inputs(DOMAIN PageTenant_responses, {""}, {TRUE}, {NoTime})
      [] a.cls = "SpeakTime" -> Inputs({1}, {""}, {TRUE}, ClockSamples)
      [] OTHER -> Inputs({1}, {""}, {TRUE}, {NoTime})

\* action.run(voice_command) for the action of a registry entry
run(st, a, voice_command, in) ==
    CASE a.cls = "GainEntry" ->
            GainEntry_run(st, voice_command, in.r, in.line, in.accepted)
      [] a.cls = "RequestPassword" ->
            RequestPassword_run(st, in.r, in.line, in.accepted)
      [] a.cls = "PageUnit" -> PageUnit_run(st, a.key, in.r)
      [] a.cls = "PageTenant" -> PageTenant_run(st, a.key, in.r)
      [] a.cls = "SpeakTime" -> SpeakTime_run(st, in.dt)
      [] OTHER -> SpeakAction_run(st, SimpleText(a.key))

\* Actor.handle: run the action of the first entry that can handle the
\* command and stop; nothing runs when no entry can
handle(st, registry, voice_command, in) ==
    LET i == first_match(registry, voice_command)
    IN  IF i = 0 THEN st
        ELSE run(Log(st, "run", HandlerId(registry[i].action), None),
                 registry[i].action, voice_command, in)

-----------------------------------------------------------------------------
(* The entity document the assistant starts from *)

\* How Bryan's password can stand in the document: no field, null, '', or a
\* word
InitialPasswords == {"<absent>", "null", "''", "apple", "Kiwi"}

BryanText(pw) ==
    LET base == [synonyms |-> <<"Bryan", "Mister B">>, unit |-> "453A",
                 phone_no |-> "'+15550100'"]
    IN  IF pw = "<absent>" THEN base ELSE ("password" :> pw) @@ base

DanaText ==
    [synonyms |-> <<"Dana">>, unit |-> "'12'", password |-> "pear",
     paging_exception |-> [message |-> "'$tenant is away'"]]

UnitsText ==
    [u453 |-> [synonyms |-> <<"453A", "four fifty three a">>, floor |-> "4"],
     u12 |-> [synonyms |-> <<"'12'", "twelve">>, floor |-> "0",
              paging_exception |-> [message |-> "'unit $unit is vacant'"]]]

Document(pw) ==
    [units |-> UnitsText,
     tenants |-> [Bryan |-> BryanText(pw), Dana |-> DanaText]]

\* What the mixer can be at
Volumes == 0..100

\* What the recogniser can hear
Utterances ==
    {"let me in apple", "Open up, it is KIWI", "open the door NO",
     "knock knock", "i forgot my password", "help me open the door",
     "page 453a", "twelve please", "call bryan", "is dana in",
     "bryan let me in apple", "hello", "what time is it", "xyzzy"}

-----------------------------------------------------------------------------
(* The assistant *)

Commit(st, c) ==
    /\ file' = st.file
    /\ heap' = st.heap
    /\ tenants' = st.tenants
    /\ units' = st.units
    /\ volume' = st.volume
    /\ trace' = st.trace
    /\ exc' = st.exc
    /\ call' = c
    /\ ret' = ""
    /\ UNCHANGED views

Current == Machine(file, heap, tenants, units, volume)

\* Entities('/home/pi/entities2.yml') and make_actor(say)
Init ==
    \E pw \in InitialPasswords :
        LET doc == Document(pw)
            loaded == [k \in DOMAIN doc.tenants |->
                          YamlLoadDict(doc.tenants[k])]
            loadedUnits == [k \in DOMAIN doc.units |->
                               YamlLoadDict(doc.units[k])]
            ref == [k \in Range(TenantKeys) |-> IndexOf(TenantKeys, k)]
        IN  /\ file = doc
            /\ tenants = ref
            /\ heap = [r \in Refs |->
                          IF r <= Len(TenantKeys) THEN loaded[TenantKeys[r]]
                          ELSE NoDict]
            /\ units = loadedUnits
            /\ views = [GainEntry |-> ref["Bryan"],
                        RequestPassword |-> ref["Bryan"],
                        PageTenant |-> ref]
            /\ handlers = make_actor(loadedUnits, loaded)
            /\ volume = 50
            /\ call = [op |-> "make_actor"]
            /\ trace = <<>>
            /\ exc = ""
            /\ ret = ""

\* actor.handle(voice_command).  call.password is the password GainEntry's
\* tenant had when the command came in.
Handle ==
    \E u \in Utterances :
        LET i == first_match(handlers, u)
        IN  \E in \in (IF i = 0 THEN Inputs({1}, {""}, {TRUE}, {NoTime})
                       ELSE InputsOf(Current, handlers[i].action, u)) :
                /\ Commit(handle(Current, handlers, u, in),
                          [op |-> "handle", arg |-> u,
                           password |-> password_get(heap[views.GainEntry])])
                /\ UNCHANGED handlers

\* add_commands_just_for_cloud_speech_api(actor, say), called once at start
AddCommands ==
    /\ call.op = "make_actor"
    /\ handlers' = add_commands(handlers)
    /\ call' = [op |-> "add_commands"]
    /\ UNCHANGED <<file, heap, tenants, units, views, volume, trace, exc,
                   ret>>

\* tenant.password = value, through the view a handler holds
SetPassword ==
    \E h \in {"GainEntry", "RequestPassword"},
       value \in {None, Str("")} \cup {Str(Rstrip(w)) : w \in Range(words)} :
        /\ Commit(password_set(Current, views[h], value),
                  [op |-> "password_set", arg |-> h, value |-> value])
        /\ UNCHANGED handlers

Next == Handle \/ AddCommands \/ SetPassword

Spec == Init /\ [][Next]_vars

-----------------------------------------------------------------------------
(* VolumeControl, run on its own: make_actor registers none of them *)

IdleViews == [GainEntry |-> 1, RequestPassword |-> 1, PageTenant |-> <<>>]

\* No store, no registry: the state around a handler or function that uses
\* neither
Idle ==
    /\ file = [units |-> <<>>, tenants |-> <<>>]
    /\ heap = [r \in Refs |-> NoDict]
    /\ tenants = <<>>
    /\ units = <<>>
    /\ views = IdleViews
    /\ handlers = <<>>
    /\ trace = <<>>
    /\ exc = ""
    /\ ret = ""

\* the change of 'volume up', 'volume down' and 'max volume'
VolumeChanges == {10, -10, 100}

InitVolume ==
    /\ Idle
    /\ volume \in Volumes
    /\ call = [op |-> "VolumeControl"]

\* VolumeControl(say, change).run(voice_command)
VolumeRun ==
    \E change \in VolumeChanges, failed \in BOOLEAN, set_ok \in BOOLEAN :
        \E out \in QueryOutputs(volume) :
            /\ Commit(VolumeControl_run(Current, change,
                                        [failed |-> failed, out |-> out],
                                        set_ok),
                      [op |-> "VolumeControl.run", change |-> change,
                       failed |-> failed, out |-> out, set_ok |-> set_ok,
                       before |-> volume])
            /\ UNCHANGED handlers

SpecVolume == InitVolume /\ [][VolumeRun]_vars

-----------------------------------------------------------------------------
(* SpeakTime.to_str over every time of day *)

InitTime ==
    /\ Idle
    /\ volume = 0
    /\ call \in {[op |-> "to_str", dt |-> dt, done |-> FALSE] : dt \in Clock}

ToStr ==
    /\ ~call.done
    /\ LET time_str == to_str(call.dt)
       IN  /\ ret' = time_str.val
           /\ exc' = time_str.exc
    /\ call' = [call EXCEPT !.done = TRUE]
    /\ UNCHANGED <<file, heap, tenants, units, views, handlers, volume,
                   trace>>

SpecTime == InitTime /\ [][ToStr]_vars

-----------------------------------------------------------------------------
(* PageUnit.say_unit over addresses *)

MaxAddrLen == 4
AddrAlphabet == {"0", "3", "4", "5", "A", "b", "-"}

RECURSIVE StringsUpTo(_)
StringsUpTo(n) ==
    IF n = 0 THEN {""}
    ELSE LET shorter == StringsUpTo(n - 1)
         IN  shorter \cup {s \o c : s \in shorter, c \in AddrAlphabet}

\* every short address, and some with a long number
LongAddresses ==
    {"12345678901234567b", "14073748835532799A", "14073748835532899A",
     "99999999999999999A", "450359962737049650b", "225179981368524875A"}
Addresses == StringsUpTo(MaxAddrLen) \cup LongAddresses

InitUnit ==
    /\ Idle
    /\ volume = 0
    /\ call \in {[op |-> "say_unit", unit |-> a, done |-> FALSE] :
                    a \in Addresses}

SayUnit ==
    /\ ~call.done
    /\ ret' = say_unit(call.unit)
    /\ call' = [call EXCEPT !.done = TRUE]
    /\ UNCHANGED <<file, heap, tenants, units, views, handlers, volume,
                   trace, exc>>

SpecUnit == InitUnit /\ [][SayUnit]_vars

-----------------------------------------------------------------------------
(* What the last operation did *)

Events(op) == {i \in DOMAIN trace : trace[i].op = op}
Said(text) == \E i \in Events("say") : trace[i].a = text
StartsWith(s, prefix) ==
    Len(s) >= Len(prefix) /\ SubSeq(s, 1, Len(prefix)) = prefix

-----------------------------------------------------------------------------
(* Claims about SpeakTime.to_str, under SpecTime *)

\* The phrase the time-phrase algorithm gives for hour h, minute m
TimePhrase(h, m) ==
    LET r0 == (m + 2) \div 5
        inverted == r0 > 6
        r == IF inverted THEN 12 - r0 ELSE r0
        hAdvanced == IF inverted THEN (h + 1) % 24 ELSE h
        h12 == IF hAdvanced > 12 THEN hAdvanced - 12 ELSE hAdvanced
    IN  IF r = 0
        THEN IF h12 = 0 THEN "It is midnight."
             ELSE "It is " \o HRS_TEXT[h12 + 1] \o " o'clock."
        ELSE "It is " \o MINS_TEXT[r] \o (IF inverted THEN " to " ELSE " past ")
             \o HRS_TEXT[h12 + 1] \o "."

ToStrDone == call.op = "to_str" /\ call.done
ToStrAt(h, m) == ToStrDone /\ call.dt.hour = h /\ call.dt.minute = m

\* C6: for every hour 0..23 and minute 0..59 to_str returns the phrase of
\* the time-phrase algorithm (round to five minutes by (minute+2)//5, invert
\* above 6 and advance the hour modulo 24, reduce an hour above 12 by 12,
\* "midnight"/"o'clock" for a rounded minute of 0, "past"/"to" otherwise);
\* no table lookup is out of range, so no IndexError leaves it; 4:00 is
\* "It is four o'clock.", 0:00 "It is midnight.", 16:47 "It is quarter to
\* five."
C6_ToStrFollowsAlgorithm ==
    /\ ToStrDone =>
          /\ exc = ""
          /\ ret = TimePhrase(call.dt.hour, call.dt.minute)
    /\ ToStrAt(4, 0) => ret = "It is four o'clock."
    /\ ToStrAt(0, 0) => ret = "It is midnight."
    /\ ToStrAt(16, 47) => ret = "It is quarter to five."

C6_Witness == ToStrAt(16, 47) /\ ret = "It is quarter to five."

\* The word of the hour after h, on the 12-hour clock
NextHourWord(h) ==
    LET n == (h + 1) % 24
    IN  HRS_TEXT[(IF n > 12 THEN n - 12 ELSE n) + 1]
HourWord(h) == HRS_TEXT[(IF h > 12 THEN h - 12 ELSE h) + 1]

HalfPast ==
    ToStrDone /\ call.dt.minute \in {29, 30, 31} =>
        ret = "It is half past " \o HourWord(call.dt.hour) \o "."

\* C7 as stated: at minute 58 the phrase is in the "to" form, "It is
\* <minute-word> to <next-hour-word>.", and at minutes 29, 30 and 31 it is
\* "It is half past <hour-word>."
C7_AsStated ==
    /\ ToStrDone /\ call.dt.minute = 58 =>
          \E i \in DOMAIN MINS_TEXT :
              ret = "It is " \o MINS_TEXT[i] \o " to "
                    \o NextHourWord(call.dt.hour) \o "."
    /\ HalfPast

\* C7 amended: at minute 58 the time rounds to the next hour and is phrased
\* "It is <next-hour-word> o'clock." ("It is midnight." at 23:58), with no
\* "to"; at minutes 29, 30 and 31 it is "It is half past <hour-word>."
C7_RoundingBoundaries ==
    /\ ToStrDone /\ call.dt.minute = 58 =>
          ret = IF call.dt.hour = 23 THEN "It is midnight."
                ELSE "It is " \o NextHourWord(call.dt.hour) \o " o'clock."
    /\ HalfPast

C7_Witness == ToStrAt(4, 58) /\ ret = "It is five o'clock."

-----------------------------------------------------------------------------
(* Claims about PageUnit.say_unit, under SpecUnit *)

SayUnitDone == call.op = "say_unit" /\ call.done
AllIn(s, set) == \A i \in 1..Len(s) : Char(s, i) \in set

\* C9: an address made of a leading digit run n and an alphabetic suffix s
\* is pronounced "<h> <r> <s>" with h = n div 100 and r = n mod 100 (so
\* h*100 + r = n and 0 <= r < 100; "453A" gives "4 53 A"); an address with
\* no digit is returned unchanged
C9_SayUnit ==
    SayUnitDone =>
        /\ (\A i \in 1..Len(call.unit) : ~IsDigit(Char(call.unit, i))) =>
              ret = call.unit
        /\ \A k \in 1..(Len(call.unit) - 1) :
              LET n == SubSeq(call.unit, 1, k)
                  suffix == SubSeq(call.unit, k + 1, Len(call.unit))
              IN  AllIn(n, DigitSet) /\ AllIn(suffix, LetterSet) =>
                     \E r \in 0..99 :
                        /\ r = Rem100(StripZeros(n))
                        /\ ret = Quot100(StripZeros(n)) \o " "
                                 \o FormatInt(r) \o " " \o suffix
        /\ call.unit = "453A" => ret = "4 53 A"

\* C9 holds where the number is short: the case of the spec's example
C9_ShortNumbers ==
    SayUnitDone /\ Len(call.unit) <= MaxAddrLen => C9_SayUnit

C9_Witness == SayUnitDone /\ call.unit = "453A" /\ ret = "4 53 A"

-----------------------------------------------------------------------------
(* Claims about VolumeControl.run, under SpecVolume *)

VolumeRan == call.op = "VolumeControl.run"

\* the adjustment failed: the query failed or printed no integer, or the
\* set command failed
AdjustmentFailed ==
    \/ call.failed
    \/ int(Strip(call.out)).exc # ""
    \/ ~call.set_ok

Announced == \E i \in Events("say") : StartsWith(trace[i].a, "Volume at ")

\* C3: run absorbs every failure of the adjustment: no exception leaves
\* it, the apology is spoken and the error logged, and a failed adjustment
\* is never announced as "Volume at N %."
C3_AbsorbsEveryFailure ==
    VolumeRan =>
        /\ exc = ""
        /\ AdjustmentFailed =>
              /\ Said("Sorry, I couldn't do that")
              /\ Events("log") # {}
              /\ ~Announced

\* C8: when the query reports the level c, the level handed to the set
\* command and the level spoken are both max(0, min(100, c + d)), within
\* 0..100 (50 and +10 give 60, 95 and +10 give 100)
C8_Clamps ==
    VolumeRan /\ ~call.failed /\ call.out = FormatInt(call.before) \o "\n" =>
        LET sum == call.before + call.change
            N == IF sum < 0 THEN 0 ELSE IF sum > 100 THEN 100 ELSE sum
        IN  /\ N \in 0..100
            /\ \E i \in Events("call") :
                  trace[i].a = "amixer -q set Master " \o FormatInt(N) \o "%"
            /\ Cardinality(Events("call")) = 1
            /\ Said("Volume at " \o FormatInt(N) \o " %.")
            /\ Cardinality(Events("say")) = 1
            /\ call.before = 50 /\ call.change = 10 => N = 60
            /\ call.before = 95 /\ call.change = 10 => N = 100

C8_Witness ==
    /\ VolumeRan /\ ~call.failed /\ call.set_ok
    /\ call.before = 95 /\ call.change = 10 /\ call.out = "95\n"
    /\ Said("Volume at 100 %.")
    /\ volume = 100

-----------------------------------------------------------------------------
(* Claims about the entity store and the dispatcher, under Spec *)

Last(set) == CHOOSE i \in set : \A j \in set : j <= i
First(set) == CHOOSE i \in set : \A j \in set : i <= j

Handled == call.op = "handle"
Ran(id) == Handled /\ \E i \in Events("run") : trace[i].a = id

\* C1: after every assignment to Tenant.password, the first and every later
\* one through the same view, the document in storage and the record of
\* Entities.tenants reloaded from it hold the value just assigned
C1_PasswordPersisted ==
    Events("assign") # {} =>
        LET value == trace[Last(Events("assign"))].v
            stored == file.tenants["Bryan"]
            reloaded == heap[tenants["Bryan"]]
        IN  /\ "password" \in DOMAIN stored
            /\ YamlLoadScalar(stored["password"]) = value
            /\ "password" \in DOMAIN reloaded
            /\ reloaded["password"] = value

SaidSuccess ==
    \E i \in Events("say") :
        StartsWith(trace[i].a, "that is the correct password: ")
SaidFailure ==
    \E i \in Events("say") :
        StartsWith(trace[i].a, "i didn't recognize the password. ")
RotationEvents ==
    Events("assign") \cup Events("save") \cup Events("load")
        \cup Events("sms")
        \cup {i \in Events("raise") : trace[i].a = "TwilioRestException"}

\* C2: GainEntry.run speaks a success phrase and rotates the password when
\* the utterance contains the tenant's password compared without regard to
\* letter case, on either side; otherwise it speaks a failure phrase and
\* nothing of a rotation happens
C2_GainEntryDecides ==
    Ran("GainEntry:") =>
        LET contained == Contains(Lower(call.password.str), Lower(call.arg))
        IN  /\ contained => SaidSuccess /\ Events("assign") # {}
            /\ ~contained => SaidFailure /\ RotationEvents = {}

\* the entries of the registry with a phrase in the command
Matching ==
    {i \in DOMAIN handlers :
        \E j \in DOMAIN handlers[i].keyword :
            Contains(Lower(handlers[i].keyword[j]), Lower(call.arg))}

InCommand(phrases) ==
    \E j \in DOMAIN phrases : Contains(Lower(phrases[j]), Lower(call.arg))
SynonymsOf(data) == [j \in DOMAIN data["synonyms"] |-> data["synonyms"][j].str]

\* the class make_actor's order gives the command to: units, then tenants,
\* then GainEntry, then RequestPassword
ClassInOrder ==
    IF \E k \in DOMAIN units : InCommand(SynonymsOf(units[k]))
    THEN "PageUnit"
    ELSE IF \E k \in DOMAIN views.PageTenant :
               InCommand(SynonymsOf(heap[views.PageTenant[k]]))
         THEN "PageTenant"
         ELSE IF InCommand(GainEntry_synonyms) THEN "GainEntry"
              ELSE IF InCommand(RequestPassword_synonyms)
                   THEN "RequestPassword"
                   ELSE ""

\* C4: for a command holding a registered phrase (letter case aside),
\* handle runs exactly one handler, that of the earliest-registered entry
\* with such a phrase; in make_actor's registry unit entries come before
\* tenant entries, those before GainEntry, and GainEntry before
\* RequestPassword
C4_FirstMatchWins ==
    Handled /\ Matching # {} =>
        /\ Cardinality(Events("run")) = 1
        /\ Ran(HandlerId(handlers[First(Matching)].action))
        /\ ClassInOrder # "" =>
              \E i \in Events("run") :
                  StartsWith(trace[i].a, ClassInOrder \o ":")

C4_Witness ==
    /\ Handled /\ call.arg = "bryan let me in apple"
    /\ Cardinality(Matching) >= 2
    /\ Ran("PageTenant:Bryan")
    /\ ~Ran("GainEntry:")

\* C5: whatever was written to a tenant's password ('' and None included)
\* and when the record has no password field, the getter returns the
\* stored password when it is a non-empty value and the default otherwise,
\* never an empty value
C5_GetterNeverEmpty ==
    \A r \in Refs :
        heap[r] # NoDict =>
            LET got == password_get(heap[r])
                kept == /\ "password" \in DOMAIN heap[r]
                        /\ heap[r]["password"] \notin {None, Str("")}
            IN  /\ got \notin {None, Str("")}
                /\ kept => got = heap[r]["password"]
                /\ ~kept => got = Str("asdfqlwevnwaevnwlvjwekfnsedhsadhfwe")

C5_Witness ==
    /\ Events("assign") # {}
    /\ trace[Last(Events("assign"))].v = Str("")
    /\ heap[views.GainEntry]["password"] = Str("")
    /\ password_get(heap[views.GainEntry]) = default_password

\* C10: in every run of GainEntry the response is spoken exactly once and
\* before anything of a rotation (assignment, save, SMS); a rotation
\* happens only after a success was spoken, and at most once
C10_SpeakThenRotate ==
    Ran("GainEntry:") =>
        /\ Cardinality(Events("say")) = 1
        /\ \A i \in RotationEvents : \A j \in Events("say") : j < i
        /\ RotationEvents # {} => SaidSuccess
        /\ Cardinality(Events("assign")) <= 1
        /\ Cardinality(Events("save")) <= 1
        /\ Cardinality(Events("sms")) <= 1

C10_Witness ==
    /\ Ran("GainEntry:")
    /\ SaidSuccess
    /\ Events("assign") # {} /\ Events("save") # {} /\ Events("sms") # {}
    /\ First(Events("say")) < First(Events("assign"))

-----------------------------------------------------------------------------
(* Claims about Password.new_word, under Spec *)

\* the word new_word picked: the value it assigned
Picked == trace[Last(Events("assign"))].v
NewWordReturned == Handled /\ Events("return") # {}

\* one message, to the tenant's phone number, after the assignment and the
\* save; message body, returned value and the password read afterwards are
\* all the picked word
Delivered ==
    /\ Cardinality(Events("sms")) = 1
    /\ \A i \in Events("sms") :
        /\ trace[i].a = phone_no(heap[views.GainEntry]).str
        /\ trace[i].v = Picked
        /\ \A j \in Events("assign") \cup Events("save") : j < i
    /\ \A i \in Events("assign") : \A j \in Events("save") : i < j
    /\ \A i \in Events("return") : trace[i].v = Picked
    /\ password_get(heap[views.GainEntry]) = Picked
    /\ password_get(heap[views.RequestPassword]) = Picked

\* C11: when Password.new_word returns, for every picked line, blank lines
\* included, the body of the one SMS sent to the tenant's phone number, the
\* value returned and the tenant's password as read afterwards are all the
\* picked word, and the assignment and the save come before the SMS
C11_DeliversWhatItStores == NewWordReturned => Delivered

\* the same for the lines that are not blank
C11_NonBlankWord == NewWordReturned /\ Picked # Str("") => Delivered

C11_NonBlankWitness ==
    /\ NewWordReturned
    /\ Picked = Str("no")
    /\ Ran("RequestPassword:")

C11_BlankWitness ==
    /\ NewWordReturned
    /\ Picked = Str("")

SendFailed ==
    Handled /\ \E i \in Events("raise") : trace[i].a = "TwilioRestException"

\* the exception ends the run: nothing follows the raise, no message went
\* out, new_word did not return, and RequestPassword.run spoke nothing
Propagated ==
    /\ exc = "TwilioRestException"
    /\ Cardinality(Events("raise")) = 1
    /\ Last(Events("raise")) = Len(trace)
    /\ Events("sms") = {} /\ Events("return") = {}
    /\ Ran("RequestPassword:") => Events("say") = {}

\* the tenant's record keeps the picked word, assigned and saved before the
\* failed send, and the password read afterwards is the one the getter gives
\* for it
NotRolledBack ==
    /\ Cardinality(Events("assign")) = 1
    /\ Cardinality(Events("save")) = 1
    /\ First(Events("assign")) < First(Events("save"))
    /\ First(Events("save")) < First(Events("raise"))
    /\ "password" \in DOMAIN heap[views.GainEntry]
    /\ heap[views.GainEntry]["password"] = Picked
    /\ heap[views.RequestPassword]["password"] = Picked
    /\ password_get(heap[views.GainEntry])
         = IF Picked = Str("") THEN default_password ELSE Picked

\* the document in storage holds the picked word
SavedPicked ==
    /\ "password" \in DOMAIN file.tenants["Bryan"]
    /\ YamlLoadScalar(file.tenants["Bryan"]["password"]) = Picked

\* C12: when Messenger.send_text raises during Password.new_word, the
\* exception leaves the handler's run uncaught (RequestPassword.run speaks
\* no confirmation) and the tenant's password keeps the new value, assigned
\* and saved before the send and never delivered: the tenant's record and
\* the document in storage both hold it
C12_SendFailurePropagates ==
    SendFailed => Propagated /\ NotRolledBack /\ SavedPicked

\* the same, with the document in storage holding the new value only when
\* the handler's view was the record Entities.tenants held as the command
\* came in
C12_WhileViewAttached ==
    [][SendFailed' =>
        /\ Propagated'
        /\ NotRolledBack'
        /\ (tenants["Bryan"] = views.RequestPassword => SavedPicked')]_vars

C12_Witness ==
    /\ SendFailed
    /\ Ran("RequestPassword:")
    /\ Picked = Str("Kiwi")
    /\ call.password # Str("Kiwi")
    /\ SavedPicked

=============================================================================
